---- MODULE Spec2Model ----
(***************************************************************************)
(* Model of task2/src/diffusion_fvm.cpp: finite-volume (TPFA) assembly of  *)
(* a steady anisotropic diffusion problem on a polygonal mesh.             *)
(*                                                                         *)
(* double values are modelled as exact rationals <<num, den>> in lowest    *)
(* terms with den > 0; <<0, 0>> stands for a non-finite result (inf/NaN).  *)
(* A tag is the function from the entities it has been written on to the   *)
(* values written, so a tag nobody wrote is the empty function <<>>.       *)
(* The cell loops visit the cells in the mesh's order (cells are numbered  *)
(* by it); the face loops, and the cell loop of the assembly, may visit in *)
(* any order.                                                              *)
(***************************************************************************)
EXTENDS Integers, Sequences, FiniteSets, TLC

VARIABLES argc, i, pc, status, out,
          m,
          glob_ind, cellCur, facesDone,
          tagD, tagConcAn, tagSource, tagGlobInd, tagConc,
          tagBCtype, tagBCval, tagBCcond,
          M, rhs, asmFaces, asmCells,
          solved, sol, scatCur, normC, normL2, saved

progVars == <<argc, i, pc, status, out>>
tagVars  == <<tagD, tagConcAn, tagSource, tagGlobInd, tagConc,
              tagBCtype, tagBCval, tagBCcond>>
initVars == <<glob_ind, cellCur, facesDone>>
sysVars  == <<M, rhs, asmFaces, asmCells>>
solVars  == <<solved, sol, scatCur, normC, normL2, saved>>
vars == <<progVars, m, initVars, tagVars, sysVars, solVars>>

(* ------------------------------ bounds -------------------------------- *)
MaxCells == 2
MaxFaces == 3
MaxArgs  == 2
MaxMainFaces == 1

(* ------------------------- program constants -------------------------- *)
dx  == 1
dy  == 1
dxy == 0
a   == 10
BC_DIR  == 1
BC_NEUM == 2

(* ------------------------- double arithmetic -------------------------- *)
Abs(x) == IF x < 0 THEN -x ELSE x

RECURSIVE GCD(_, _)
GCD(x, y) == IF y = 0 THEN x ELSE GCD(y, x % y)

NaN == <<0, 0>>

Norm(n, d) ==
  IF d = 0 THEN NaN
  ELSE LET g == GCD(Abs(n), Abs(d))
           s == IF d < 0 THEN -1 ELSE 1
       IN  <<(s * n) \div g, (s * d) \div g>>

R(n) == <<n, 1>>
Finite(x) == x[2] # 0

RAdd(x, y) == IF Finite(x) /\ Finite(y)
              THEN Norm(x[1] * y[2] + y[1] * x[2], x[2] * y[2]) ELSE NaN
RNeg(x)    == IF Finite(x) THEN <<-x[1], x[2]>> ELSE NaN
RSub(x, y) == RAdd(x, RNeg(y))
RMul(x, y) == IF Finite(x) /\ Finite(y)
              THEN Norm(x[1] * y[1], x[2] * y[2]) ELSE NaN
RDiv(x, y) == IF Finite(x) /\ Finite(y)
              THEN Norm(x[1] * y[2], x[2] * y[1]) ELSE NaN
RLt(x, y)  == Finite(x) /\ Finite(y) /\ x[1] * y[2] < y[1] * x[2]
fabs(x)    == IF Finite(x) THEN <<Abs(x[1]), x[2]>> ELSE NaN
max(x, y)  == IF RLt(x, y) THEN y ELSE x

(* sin(u)*sin(v) and cos(u)*cos(v) of <math.h>: not rational, so each is   *)
(* represented by a fixed table of sample values in [-1, 1].               *)
SinProd(u, v) == Norm(((u + 3 * v) % 7) - 3, 3)
CosProd(u, v) == Norm(((3 * u + v) % 5) - 2, 2)

(* analytical solution, at a point with integer coordinates *)
C(x, y) == SinProd(a * x, a * y)

source(x, y) ==
  RMul(R(-a * a),
       RSub(RMul(R(2 * dxy), CosProd(a * x, a * y)),
            RMul(R(dx + dy), SinProd(a * x, a * y))))

(* one-sided transmissibility (D*dA).nf / (dA.dA) *)
calc_tf(D, nf, dA) ==
  LET DdA0 == RAdd(RMul(D[1][1], dA[1]), RMul(D[1][2], dA[2]))
      DdA1 == RAdd(RMul(D[2][1], dA[1]), RMul(D[2][2], dA[2]))
  IN  RDiv(RAdd(RMul(DdA0, nf[1]), RMul(DdA1, nf[2])),
           RAdd(RMul(dA[1], dA[1]), RMul(dA[2], dA[2])))

(* the 2x2 tensor built from a cell's 3-component tag (Dx, Dy, Dxy) *)
TensorOf(d3) == << <<d3[1], d3[3]>>, <<d3[3], d3[2]>> >>

(* xf - xc, componentwise *)
Disp(xf, xc) == <<R(xf[1] - xc[1]), R(xf[2] - xc[2])>>

NormalOf(f) == <<R(f.nf[1]), R(f.nf[2])>>

(* mutant: the additive harmonic mean *)
Conductivity_Additive(tfA, tfB) == RDiv(RMul(tfA, tfB), RAdd(tfA, tfB))

(* mutant: the difference taken the other way round *)
Conductivity_Flipped(tfA, tfB) == RDiv(RMul(tfA, tfB), RSub(tfB, tfA))

(* the combination stored on an internal face *)
Conductivity(tfA, tfB) == RDiv(RMul(tfA, tfB), RSub(tfA, tfB))

(* ------------------------------ the mesh ------------------------------ *)
(* Cells are numbered 1..N in the order the cell iterator visits them; a   *)
(* face is a record of what the Face interface reports.  front = 0 is an   *)
(* invalid FrontCell handle.                                               *)
CellPos(c) == <<2 * c, c % 2>>
Volume(c)  == c

Cells(mesh) == 1 .. mesh.N

BoundaryGeoms ==
  { [off |-> <<1, 0>>, nf |-> <<1, 0>>, area |-> 1],
    [off |-> <<1, 1>>, nf |-> <<0, 1>>, area |-> 2] }

InternalGeoms ==
  { [off |-> <<1, 0>>, nf |-> <<1, 0>>,  area |-> 1],
    [off |-> <<1, 1>>, nf |-> <<-1, 0>>, area |-> 2] }

UnresolvedGeoms ==
  { [off |-> <<1, 0>>, nf |-> <<1, 0>>, area |-> 1] }

MkFace(b, cA, cB, g) ==
  [bnd |-> b, back |-> cA, front |-> cB,
   xf |-> <<CellPos(cA)[1] + g.off[1], CellPos(cA)[2] + g.off[2]>>,
   nf |-> g.nf, area |-> g.area]

FaceChoices(n) ==
  { MkFace(TRUE, c, 0, g) : c \in 1 .. n, g \in BoundaryGeoms }
  \cup { MkFace(FALSE, c[1], c[2], g) :
           c \in { p \in (1 .. n) \X (1 .. n) : p[1] # p[2] }, g \in InternalGeoms }
  \cup { MkFace(FALSE, c, 0, g) : c \in 1 .. n, g \in UnresolvedGeoms }

RECURSIVE KSubsets(_, _)
KSubsets(S, k) ==
  IF k = 0 THEN { {} }
  ELSE LET T == KSubsets(S, k - 1)
       IN  T \cup { t \cup {x} : t \in T, x \in S }

(* the two one-sided transmissibilities of an internal face, from the      *)
(* tensors stored on its back and front cells                              *)
TfA(f, D) == calc_tf(TensorOf(D[f.back]), NormalOf(f), Disp(f.xf, CellPos(f.back)))
TfB(f, D) == calc_tf(TensorOf(D[f.front]), NormalOf(f), Disp(f.xf, CellPos(f.front)))

UniformD == [c \in 1 .. MaxCells |-> <<R(dx), R(dy), R(dxy)>>]

(* a heterogeneous, anisotropic (symmetric positive definite) tensor field *)
HeteroD == [c \in 1 .. MaxCells |-> <<R(c), R(1), R(IF c = 1 THEN 0 ELSE 1)>>]

(* a face the code's preconditions admit under the tensor field D: no      *)
(* zero-length displacement and tfA # tfB (no division by zero)            *)
Regular(f, D) ==
  (~f.bnd /\ f.front # 0) =>
     /\ f.xf # CellPos(f.front)
     /\ TfA(f, D) # TfB(f, D)

MeshFamily(choices, maxFaces) ==
  UNION { { [N |-> n, faces |-> fs] : fs \in KSubsets(choices[n], maxFaces) } :
          n \in 1 .. MaxCells }

(* the faces of the meshes a Problem is built on *)
ProblemFaces == [n \in 1 .. MaxCells |-> { f \in FaceChoices(n) : Regular(f, UniformD) }]

(* the faces of the meshes assembleGlobalSystem is run on with given       *)
(* fields: resolved faces only, internal ones with the orthogonal geometry *)
AsmFaces ==
  [n \in 1 .. MaxCells |->
     { f \in FaceChoices(n) :
         /\ Regular(f, HeteroD)
         /\ ~f.bnd => (f.front # 0 /\ f.nf = <<1, 0>>) }]

Numberings(n) ==
  { p \in [1 .. n -> 0 .. n - 1] : \A c, d \in 1 .. n : c # d => p[c] # p[d] }

NoMesh == [N |-> 0, faces |-> {}]

BadFace(f) == ~f.bnd /\ f.front = 0

(* what the external solver may hand back for a system of size n *)
SolChoices(n) ==
  { [k \in 0 .. n - 1 |-> R(0)], [k \in 0 .. n - 1 |-> <<k + 1, 2>>] }

ZeroMatrix(n) == [r \in 0 .. n - 1 |-> [k \in 0 .. n - 1 |-> R(0)]]
ZeroVector(n) == [k \in 0 .. n - 1 |-> R(0)]

(* M[r][k] += v  and  M[r][k] -= v *)
MAdd(A, r, k, v) == [A EXCEPT ![r][k] = RAdd(@, v)]
MSub(A, r, k, v) == [A EXCEPT ![r][k] = RSub(@, v)]
VSub(b, k, v)    == [b EXCEPT ![k] = RSub(@, v)]

(* --------------------------- initial state ---------------------------- *)
FreshProblem ==
  /\ glob_ind = 0 /\ cellCur = 0 /\ facesDone = {}
  /\ tagD = <<>> /\ tagConcAn = <<>> /\ tagSource = <<>>
  /\ tagGlobInd = <<>> /\ tagConc = <<>>
  /\ tagBCtype = <<>> /\ tagBCval = <<>> /\ tagBCcond = <<>>
  /\ M = <<>> /\ rhs = <<>> /\ asmFaces = {} /\ asmCells = {}
  /\ solved = FALSE /\ sol = <<>> /\ scatCur = 0
  /\ normC = R(0) /\ normL2 = R(0) /\ saved = FALSE

Init ==
  /\ argc \in 1 .. MaxArgs + 1
  /\ i = 1 /\ pc = "main" /\ status = "running" /\ out = <<>>
  /\ m = NoMesh
  /\ FreshProblem

(* ------------------------------- main --------------------------------- *)
Exit(code, msg) ==
  /\ pc' = "exited" /\ status' = code /\ out' = Append(out, msg)
  /\ UNCHANGED <<argc, i>>

(* argc < 2: usage message, return -1 *)
MainUsage ==
  /\ pc = "main" /\ argc < 2
  /\ Exit("exit-1", "Usage")
  /\ UNCHANGED <<m, initVars, tagVars, sysVars, solVars>>

(* loop test true: Mesh m; m.Load(argv[i]); Problem P(m); entry of initProblem *)
MainLoad ==
  /\ pc = "main" /\ argc >= 2 /\ i < argc
  /\ m' \in MeshFamily(ProblemFaces, MaxMainFaces)
  /\ pc' = "initProblem"
  /\ UNCHANGED <<argc, i, status, out, initVars, tagVars, sysVars, solVars>>

(* loop test false: return 0 *)
MainReturn ==
  /\ pc = "main" /\ argc >= 2 /\ i >= argc
  /\ pc' = "exited" /\ status' = "exit0"
  /\ UNCHANGED <<argc, i, out, m, initVars, tagVars, sysVars, solVars>>

(* ---------------------------- initProblem ----------------------------- *)
(* mutant: the counter is not advanced *)
NextGlobInd_Stuck(g) == g

(* glob_ind++ *)
NextGlobInd(g) == g + 1

(* one iteration of the cell loop *)
InitCell ==
  /\ pc = "initProblem" /\ cellCur < m.N
  /\ LET c  == cellCur + 1
         xc == CellPos(c)
     IN  /\ tagD' = tagD @@ (c :> <<R(dx), R(dy), R(dxy)>>)
         /\ tagConcAn' = tagConcAn @@ (c :> C(xc[1], xc[2]))
         /\ tagSource' = tagSource @@ (c :> source(xc[1], xc[2]))
         /\ tagGlobInd' = tagGlobInd @@ (c :> glob_ind)
         /\ glob_ind' = NextGlobInd(glob_ind)
         /\ cellCur' = c
  /\ UNCHANGED <<progVars, m, facesDone, tagConc, tagBCtype, tagBCval, tagBCcond,
                 sysVars, solVars>>

(* mutant: an unresolved front cell is skipped instead of ending the run *)
InitFace_NoCheck(f) ==
  /\ pc = "initProblem" /\ cellCur = m.N
  /\ f \in m.faces \ facesDone
  /\ IF f.bnd
     THEN /\ tagBCtype' = tagBCtype @@ (f :> BC_DIR)
          /\ tagBCval' = tagBCval @@ (f :> C(f.xf[1], f.xf[2]))
          /\ UNCHANGED tagBCcond
     ELSE IF f.front = 0
     THEN UNCHANGED <<tagBCtype, tagBCval, tagBCcond>>
     ELSE /\ tagBCcond' = tagBCcond @@ (f :> Conductivity(TfA(f, tagD), TfB(f, tagD)))
          /\ UNCHANGED <<tagBCtype, tagBCval>>
  /\ facesDone' = facesDone \cup {f}
  /\ UNCHANGED <<progVars, m, glob_ind, cellCur, tagD, tagConcAn, tagSource,
                 tagGlobInd, tagConc, sysVars, solVars>>

(* one iteration of the face loop, on face f *)
InitFace(f) ==
  /\ pc = "initProblem" /\ cellCur = m.N
  /\ f \in m.faces \ facesDone
  /\ IF f.bnd
     THEN /\ tagBCtype' = tagBCtype @@ (f :> BC_DIR)
          /\ tagBCval' = tagBCval @@ (f :> C(f.xf[1], f.xf[2]))
          /\ facesDone' = facesDone \cup {f}
          /\ UNCHANGED <<progVars, tagBCcond>>
     ELSE IF f.front = 0
     THEN /\ Exit("exit1", "Invalid FrontCell!")
          /\ UNCHANGED <<facesDone, tagBCtype, tagBCval, tagBCcond>>
     ELSE /\ tagBCcond' = tagBCcond @@ (f :> Conductivity(TfA(f, tagD), TfB(f, tagD)))
          /\ facesDone' = facesDone \cup {f}
          /\ UNCHANGED <<progVars, tagBCtype, tagBCval>>
  /\ UNCHANGED <<m, glob_ind, cellCur, tagD, tagConcAn, tagSource, tagGlobInd,
                 tagConc, sysVars, solVars>>

(* -------------------------------- run --------------------------------- *)
(* initProblem has returned; run() prints N and sizes A, sol and rhs *)
RunStart ==
  /\ pc = "initProblem" /\ cellCur = m.N /\ facesDone = m.faces
  /\ out' = Append(out, "N")
  /\ M' = ZeroMatrix(m.N) /\ rhs' = ZeroVector(m.N)
  /\ pc' = "assemble"
  /\ UNCHANGED <<argc, i, status, m, initVars, tagVars, asmFaces, asmCells, solVars>>

(* mutant: the diagonal entry is assigned instead of decremented *)
DirichletContribution_Assign(f, A, b) ==
  LET t  == TfA(f, tagD)
      id == tagGlobInd[f.back]
  IN  << [A EXCEPT ![id][id] = RNeg(RMul(t, R(f.area)))],
         VSub(b, id, RMul(RMul(t, tagBCval[f]), R(f.area))) >>

(* Dirichlet boundary face: M[id][id] -= t*area, rhs[id] -= t*bcval*area *)
DirichletContribution(f, A, b) ==
  LET t  == TfA(f, tagD)
      id == tagGlobInd[f.back]
  IN  << MSub(A, id, id, RMul(t, R(f.area))),
         VSub(b, id, RMul(RMul(t, tagBCval[f]), R(f.area))) >>

(* mutant: the update of M[idB][idA] is missing *)
InternalContribution_OneSided(f, A, b) ==
  LET t   == tagBCcond[f]
      idA == tagGlobInd[f.back]
      idB == tagGlobInd[f.front]
      tA  == RMul(t, R(f.area))
  IN  << MAdd(MSub(MAdd(A, idA, idA, tA), idA, idB, tA), idB, idB, tA), b >>

(* mutant: M[idB][idB] is decremented instead of incremented *)
InternalContribution_SignSlip(f, A, b) ==
  LET t   == tagBCcond[f]
      idA == tagGlobInd[f.back]
      idB == tagGlobInd[f.front]
      tA  == RMul(t, R(f.area))
  IN  << MSub(MSub(MSub(MAdd(A, idA, idA, tA), idA, idB, tA), idB, idA, tA),
              idB, idB, tA),
         b >>

(* internal face: the four updates of the two-point stencil *)
InternalContribution(f, A, b) ==
  LET t   == tagBCcond[f]
      idA == tagGlobInd[f.back]
      idB == tagGlobInd[f.front]
      tA  == RMul(t, R(f.area))
  IN  << MAdd(MSub(MSub(MAdd(A, idA, idA, tA), idA, idB, tA), idB, idA, tA),
              idB, idB, tA),
         b >>

(* mutant: a Neumann face is assembled like a Dirichlet face *)
FaceContribution_NoNeumannSkip(f, A, b) ==
  IF f.bnd THEN DirichletContribution(f, A, b) ELSE InternalContribution(f, A, b)

(* the body of assembleGlobalSystem's face loop on face f: the new A, rhs *)
FaceContribution(f, A, b) ==
  IF f.bnd
  THEN IF tagBCtype[f] = BC_NEUM THEN <<A, b>>
       ELSE IF tagBCtype[f] = BC_DIR THEN DirichletContribution(f, A, b)
       ELSE <<A, b>>
  ELSE InternalContribution(f, A, b)

(* the body of assembleGlobalSystem's cell loop on cell c: the new rhs *)
CellContribution(c, b) ==
  VSub(b, tagGlobInd[c], RMul(tagSource[c], R(Volume(c))))

AsmFace(f) ==
  /\ pc = "assemble"
  /\ f \in m.faces \ asmFaces
  /\ IF BadFace(f)
     THEN /\ Exit("exit1", "Invalid FrontCell!")
          /\ UNCHANGED <<sysVars>>
     ELSE /\ M' = FaceContribution(f, M, rhs)[1]
          /\ rhs' = FaceContribution(f, M, rhs)[2]
          /\ asmFaces' = asmFaces \cup {f}
          /\ UNCHANGED <<progVars, asmCells>>
  /\ UNCHANGED <<m, initVars, tagVars, solVars>>

(* one iteration of assembleGlobalSystem's cell loop, on cell c *)
AsmCell(c) ==
  /\ pc = "assemble" /\ asmFaces = m.faces
  /\ c \in Cells(m) \ asmCells
  /\ rhs' = CellContribution(c, rhs)
  /\ asmCells' = asmCells \cup {c}
  /\ UNCHANGED <<progVars, m, initVars, tagVars, M, asmFaces, solVars>>

(* S.Solve(rhs, sol) and the two diagnostics printed after it *)
Solve ==
  /\ pc = "assemble" /\ asmFaces = m.faces /\ asmCells = Cells(m)
  /\ solved' \in BOOLEAN
  /\ sol' \in SolChoices(m.N)
  /\ out' = out \o <<"Iterations", "Residual">>
  /\ pc' = "solved"
  /\ UNCHANGED <<argc, i, status, m, initVars, tagVars, sysVars,
                 scatCur, normC, normL2, saved>>

(* mutant: a failed solve is reported and the run goes on to the next mesh *)
SolverFailed_Continue ==
  /\ pc = "solved" /\ ~solved
  /\ out' = Append(out, "Linear solver failed")
  /\ pc' = "ran"
  /\ UNCHANGED <<argc, i, status, m, initVars, tagVars, sysVars, solVars>>

SolverFailed ==
  /\ pc = "solved" /\ ~solved
  /\ Exit("exit1", "Linear solver failed")
  /\ UNCHANGED <<m, initVars, tagVars, sysVars, solVars>>

(* mutant: the write-back loop does not depend on the solver's success *)
Scatter_Unchecked ==
  /\ pc = "solved" /\ scatCur < m.N
  /\ LET c    == scatCur + 1
         ind  == tagGlobInd[c]
         diff == fabs(RSub(sol[ind], tagConcAn[c]))
     IN  /\ tagConc' = tagConc @@ (c :> sol[ind])
         /\ normL2' = RAdd(normL2, RMul(diff, R(Volume(c))))
         /\ normC' = max(normC, diff)
         /\ scatCur' = c
  /\ UNCHANGED <<progVars, m, initVars, tagD, tagConcAn, tagSource, tagGlobInd,
                 tagBCtype, tagBCval, tagBCcond, sysVars, solved, sol, saved>>

(* one iteration of the write-back and error-norm loop *)
Scatter ==
  /\ pc = "solved" /\ solved /\ scatCur < m.N
  /\ LET c    == scatCur + 1
         ind  == tagGlobInd[c]
         diff == fabs(RSub(sol[ind], tagConcAn[c]))
     IN  /\ tagConc' = tagConc @@ (c :> sol[ind])
         /\ normL2' = RAdd(normL2, RMul(diff, R(Volume(c))))
         /\ normC' = max(normC, diff)
         /\ scatCur' = c
  /\ UNCHANGED <<progVars, m, initVars, tagD, tagConcAn, tagSource, tagGlobInd,
                 tagBCtype, tagBCval, tagBCcond, sysVars, solved, sol, saved>>

(* the norms are printed and the mesh is saved *)
RunFinish ==
  /\ pc = "solved" /\ solved /\ scatCur = m.N
  /\ out' = out \o <<"Error C-norm", "Error L2-norm">>
  /\ saved' = TRUE
  /\ pc' = "ran"
  /\ UNCHANGED <<argc, i, status, m, initVars, tagVars, sysVars,
                 solved, sol, scatCur, normC, normL2>>

(* printf("Success"), end of the loop body (P and m destroyed), i++ *)
MainSuccess ==
  /\ pc = "ran"
  /\ out' = Append(out, "Success")
  /\ i' = i + 1
  /\ pc' = "main"
  /\ m' = NoMesh
  /\ glob_ind' = 0 /\ cellCur' = 0 /\ facesDone' = {}
  /\ tagD' = <<>> /\ tagConcAn' = <<>> /\ tagSource' = <<>>
  /\ tagGlobInd' = <<>> /\ tagConc' = <<>>
  /\ tagBCtype' = <<>> /\ tagBCval' = <<>> /\ tagBCcond' = <<>>
  /\ M' = <<>> /\ rhs' = <<>> /\ asmFaces' = {} /\ asmCells' = {}
  /\ solved' = FALSE /\ sol' = <<>> /\ scatCur' = 0
  /\ normC' = R(0) /\ normL2' = R(0) /\ saved' = FALSE
  /\ UNCHANGED <<argc, status>>

Next ==
  \/ MainUsage
  \/ MainLoad
  \/ MainReturn
  \/ InitCell
  \/ \E f \in m.faces : InitFace(f)
  \/ RunStart
  \/ \E f \in m.faces : AsmFace(f)
  \/ \E c \in Cells(m) : AsmCell(c)
  \/ Solve
  \/ SolverFailed
  \/ Scatter
  \/ RunFinish
  \/ MainSuccess

Spec == Init /\ [][Next]_vars

(* One Problem, from construction on a loaded mesh to the end of run(). *)
InitProblem ==
  /\ argc = 2 /\ i = 1 /\ pc = "initProblem" /\ status = "running" /\ out = <<>>
  /\ m \in MeshFamily(ProblemFaces, MaxFaces)
  /\ FreshProblem

NextProblem ==
  \/ InitCell
  \/ \E f \in m.faces : InitFace(f)
  \/ RunStart
  \/ \E f \in m.faces : AsmFace(f)
  \/ \E c \in Cells(m) : AsmCell(c)
  \/ Solve
  \/ SolverFailed
  \/ Scatter
  \/ RunFinish

SpecProblem == InitProblem /\ [][NextProblem]_vars

(* assembleGlobalSystem alone, on a zero matrix and right-hand side, with  *)
(* the fields of the mesh given: any global numbering, a heterogeneous     *)
(* tensor field, and Dirichlet or Neumann on each boundary face.           *)
InitAsm ==
  /\ argc = 2 /\ i = 1 /\ pc = "assemble" /\ status = "running" /\ out = <<"N">>
  /\ m \in MeshFamily(AsmFaces, MaxFaces)
  /\ glob_ind = m.N /\ cellCur = m.N /\ facesDone = m.faces
  /\ tagD = [c \in Cells(m) |-> HeteroD[c]]
  /\ tagConcAn = [c \in Cells(m) |-> C(CellPos(c)[1], CellPos(c)[2])]
  /\ tagSource = [c \in Cells(m) |-> source(CellPos(c)[1], CellPos(c)[2])]
  /\ tagGlobInd \in Numberings(m.N)
  /\ tagConc = <<>>
  /\ tagBCtype \in [{ f \in m.faces : f.bnd } -> {BC_DIR, BC_NEUM}]
  /\ tagBCval = [f \in { g \in m.faces : g.bnd } |-> C(f.xf[1], f.xf[2])]
  /\ tagBCcond = [f \in { g \in m.faces : ~g.bnd } |->
                    Conductivity(TfA(f, tagD), TfB(f, tagD))]
  /\ M = ZeroMatrix(m.N) /\ rhs = ZeroVector(m.N)
  /\ asmFaces = {} /\ asmCells = {}
  /\ solved = FALSE /\ sol = <<>> /\ scatCur = 0
  /\ normC = R(0) /\ normL2 = R(0) /\ saved = FALSE

NextAsm ==
  \/ \E f \in m.faces : AsmFace(f)
  \/ \E c \in Cells(m) : AsmCell(c)

SpecAsm == InitAsm /\ [][NextAsm]_vars

(* ====================================================================== *)
(*                              Properties                                *)
(* ====================================================================== *)
RECURSIVE SumOver(_, _)
SumOver(S, term) ==
  IF S = {} THEN R(0)
  ELSE LET x == CHOOSE y \in S : TRUE
       IN  RAdd(term[x], SumOver(S \ {x}, term))

InitReturned == pc \in {"assemble", "solved", "ran"}

(* assembleGlobalSystem has returned *)
Assembled ==
  \/ pc \in {"solved", "ran"}
  \/ pc = "assemble" /\ asmFaces = m.faces /\ asmCells = Cells(m)

InternalFaces == { f \in m.faces : ~f.bnd /\ f.front # 0 }
DirichletFaces(c) ==
  { f \in m.faces : f.bnd /\ f.back = c /\ tagBCtype[f] = BC_DIR }
Linking(c, d) ==
  { f \in InternalFaces : {f.back, f.front} = {c, d} }

(* C1: once initProblem has visited every cell, each cell of the mesh has  *)
(* a global index, no two cells share one, and the indices are exactly     *)
(* 0 .. N-1.                                                               *)
C1_GlobalIndices ==
  (pc \in {"initProblem", "assemble", "solved", "ran"} /\ cellCur = m.N) =>
     /\ DOMAIN tagGlobInd = Cells(m)
     /\ \A c, d \in Cells(m) : c # d => tagGlobInd[c] # tagGlobInd[d]
     /\ { tagGlobInd[c] : c \in Cells(m) } = 0 .. m.N - 1

C1_Witness == InitReturned /\ m.N >= 2 /\ m.faces # {}

(* C2 as stated: after assembly the matrix is symmetric and, for every     *)
(* internal face linking cells with indices i and j, M[i][j] and M[j][i]   *)
(* both equal minus that face's conductivity times its area.               *)
C2_PerFaceEntry ==
  Assembled =>
     /\ \A r, k \in 0 .. m.N - 1 : M[r][k] = M[k][r]
     /\ \A f \in InternalFaces :
          LET ia == tagGlobInd[f.back]
              ib == tagGlobInd[f.front]
              v  == RNeg(RMul(tagBCcond[f], R(f.area)))
          IN  M[ia][ib] = v /\ M[ib][ia] = v

(* C2 amended: after assembly the matrix is symmetric and, for every two   *)
(* distinct cells, both off-diagonal entries between them equal minus the  *)
(* sum of conductivity times area over all internal faces linking the two  *)
(* cells (one term when a single face links them, zero when none does).    *)
C2_SymmetricStencil ==
  Assembled =>
     /\ \A r, k \in 0 .. m.N - 1 : M[r][k] = M[k][r]
     /\ \A c, d \in Cells(m) : c # d =>
          LET ia == tagGlobInd[c]
              ib == tagGlobInd[d]
              v  == RNeg(SumOver(Linking(c, d),
                                 [f \in InternalFaces |-> RMul(tagBCcond[f], R(f.area))]))
          IN  M[ia][ib] = v /\ M[ib][ia] = v

C2_Witness ==
  /\ Assembled
  /\ \E c, d \in Cells(m) : Cardinality(Linking(c, d)) >= 2
                              /\ M[tagGlobInd[c]][tagGlobInd[d]] # R(0)

(* C3: after assembly, for every cell the sum of all entries of its matrix *)
(* row equals the sum, over the cell's Dirichlet boundary faces, of minus  *)
(* one-sided transmissibility times area; it is zero for a cell without a  *)
(* Dirichlet boundary face.                                                *)
RowSum(row) == SumOver(DOMAIN row, row)

C3_RowSums ==
  Assembled =>
     \A c \in Cells(m) :
        RowSum(M[tagGlobInd[c]]) =
          RNeg(SumOver(DirichletFaces(c),
                       [f \in m.faces |-> RMul(TfA(f, tagD), R(f.area))]))

C3_Witness ==
  /\ Assembled
  /\ \E c, d \in Cells(m) :
        /\ { f \in m.faces : f.bnd /\ f.back = c } = {}
        /\ Linking(c, d) # {}
        /\ M[tagGlobInd[c]][tagGlobInd[c]] # R(0)
        /\ DirichletFaces(d) # {}
        /\ RowSum(M[tagGlobInd[d]]) # R(0)

(* C9: after assembly on a zero right-hand side, rhs at a cell's index is  *)
(* minus the sum over the cell's Dirichlet faces of transmissibility times *)
(* boundary value times area, minus source times volume; Neumann and       *)
(* internal faces add nothing to it, and the diagonal holds only the       *)
(* Dirichlet and internal-face terms (a Neumann face adds nothing).        *)
C9_RightHandSide ==
  Assembled =>
     \A c \in Cells(m) :
        LET id == tagGlobInd[c]
            dirRhs == SumOver(DirichletFaces(c),
                        [f \in m.faces |->
                           RMul(RMul(TfA(f, tagD), tagBCval[f]), R(f.area))])
            dirDiag == SumOver(DirichletFaces(c),
                        [f \in m.faces |-> RMul(TfA(f, tagD), R(f.area))])
            intDiag == SumOver({ f \in InternalFaces : c \in {f.back, f.front} },
                        [f \in InternalFaces |-> RMul(tagBCcond[f], R(f.area))])
        IN  /\ rhs[id] = RSub(RNeg(dirRhs), RMul(tagSource[c], R(Volume(c))))
            /\ M[id][id] = RSub(intDiag, dirDiag)

C9_Witness ==
  /\ Assembled
  /\ \E c \in Cells(m) :
        /\ DirichletFaces(c) # {}
        /\ \E f \in m.faces : f.bnd /\ f.back = c /\ tagBCtype[f] = BC_NEUM
        /\ \E f \in InternalFaces : f.back = c
        /\ tagSource[c] # R(0)
        /\ rhs[tagGlobInd[c]] # R(0)

(* C10: the assembled matrix and right-hand side are those obtained by     *)
(* visiting the faces and then the cells in one fixed order, whatever      *)
(* order the loops took; and a step of the assembly changes nothing but    *)
(* the matrix and the right-hand side.                                     *)
RECURSIVE FoldFaces(_, _, _)
FoldFaces(S, A, b) ==
  IF S = {} THEN <<A, b>>
  ELSE LET f == CHOOSE g \in S : TRUE
           r == FaceContribution(f, A, b)
       IN  FoldFaces(S \ {f}, r[1], r[2])

RECURSIVE FoldCells(_, _)
FoldCells(S, b) ==
  IF S = {} THEN b
  ELSE LET c == CHOOSE d \in S : TRUE
       IN  FoldCells(S \ {c}, CellContribution(c, b))

Count(seq, x) == Cardinality({ k \in 1 .. Len(seq) : seq[k] = x })
Tail3(seq) == SubSeq(seq, Len(seq) - 2, Len(seq))
Tail2(seq) == SubSeq(seq, Len(seq) - 1, Len(seq))

SolverInvoked == sol # <<>>
NothingWrittenBack ==
  tagConc = <<>> /\ scatCur = 0 /\ normC = R(0) /\ normL2 = R(0) /\ ~saved

(* C4: when Solve reports failure the iteration count and the residual     *)
(* have been printed, the next step is exit(1), and no cell's solution     *)
(* field is written and no error norm is computed or printed.              *)
C4_SolverFailureHalts ==
  /\ [](pc = "solved" => Len(out) >= 2 /\ Tail2(out) = <<"Iterations", "Residual">>)
  /\ []((SolverInvoked /\ ~solved) =>
          /\ NothingWrittenBack
          /\ pc \in {"solved", "exited"}
          /\ pc = "exited" =>
               /\ status = "exit1"
               /\ Tail3(out) = <<"Iterations", "Residual", "Linear solver failed">>)
  /\ [][(pc = "solved" /\ ~solved) => pc' = "exited"]_vars

C4_Witness ==
  /\ pc = "exited" /\ SolverInvoked /\ ~solved
  /\ i = 2 /\ m.N >= 2 /\ m.faces # {}

(* C5: a mesh with a non-boundary face whose front cell is invalid never   *)
(* gets past initProblem: the face loop cannot complete (the unresolved    *)
(* face is still to be visited, and visiting it is exit(1) after the       *)
(* topology message), the system is never sized or assembled and the       *)
(* solver is never invoked.                                                *)
HasUnresolvedFace == \E f \in m.faces : BadFace(f)

C5_TopologyErrorFatal ==
  /\ [](HasUnresolvedFace =>
          /\ pc \in {"initProblem", "exited"}
          /\ M = <<>> /\ rhs = <<>> /\ asmFaces = {} /\ asmCells = {}
          /\ ~SolverInvoked
          /\ pc = "initProblem" => \E f \in m.faces \ facesDone : BadFace(f)
          /\ pc = "exited" =>
               status = "exit1" /\ out[Len(out)] = "Invalid FrontCell!")
  /\ [][(HasUnresolvedFace /\ pc = "initProblem" /\ pc' # pc) =>
          (pc' = "exited" /\ status' = "exit1")]_vars

C5_Witness ==
  /\ HasUnresolvedFace /\ pc = "exited" /\ status = "exit1"
  /\ i = 2 /\ cellCur = m.N /\ m.N >= 2

(* C6: mesh files are handled one after another in argument order, each    *)
(* loaded into a fresh mesh and Problem; 'Success' has been printed once   *)
(* per mesh before the current one; a fatal failure on mesh i ends the     *)
(* process with a failure status and nothing runs after it; without a mesh *)
(* argument the process ends with a failure status and loads nothing.      *)
C6_SequentialRuns ==
  /\ [](/\ Count(out, "Success") = i - 1
        /\ \A k \in 1 .. Len(out) :
              out[k] \in {"Linear solver failed", "Invalid FrontCell!"} =>
                 k = Len(out) /\ pc = "exited" /\ status = "exit1"
        /\ (pc = "main" => m = NoMesh /\ FreshProblem)
        /\ (m # NoMesh => argc >= 2 /\ i < argc)
        /\ (pc = "exited" =>
              \/ status = "exit-1" /\ argc < 2 /\ out = <<"Usage">> /\ m = NoMesh
              \/ status = "exit0" /\ argc >= 2 /\ i = argc /\ m = NoMesh
              \/ status = "exit1" /\ argc >= 2 /\ i < argc /\ m # NoMesh))
  /\ [][/\ pc # "exited"
        /\ (i' # i => i' = i + 1 /\ pc = "ran")
        /\ (m' # m /\ m' # NoMesh => pc = "main" /\ m = NoMesh)]_vars

C6_Witness ==
  /\ pc = "exited" /\ status = "exit1" /\ argc = 3 /\ i = 2
  /\ Count(out, "Success") = 1

(* ----------------------- interface conductivity ----------------------- *)
(* The conductivities are stored by initProblem's face loop and never      *)
(* written again, so they are examined while initProblem runs (up to and   *)
(* including the state in which its face loop has completed).              *)
(* the same face seen from its other side: the two cells exchanged and the *)
(* normal, which points from the back cell to the front cell, reversed     *)
Reversed(f) ==
  [f EXCEPT !.back = f.front, !.front = f.back, !.nf = <<-f.nf[1], -f.nf[2]>>]

(* C7 as stated: the stored conductivity equals the same combination with  *)
(* the two one-sided transmissibilities exchanged.                         *)
C7_ExchangeSame ==
  pc = "initProblem" =>
  \A f \in DOMAIN tagBCcond :
     tagBCcond[f] = Conductivity(TfB(f, tagD), TfA(f, tagD))

(* C7 amended: exchanging the two one-sided transmissibilities negates the *)
(* conductivity; it is the same from either side only when the face is     *)
(* taken from its other side as a whole, cells exchanged and normal        *)
(* reversed.                                                               *)
C7_SideIndependent ==
  pc = "initProblem" =>
  \A f \in DOMAIN tagBCcond :
     /\ tagBCcond[f] = RNeg(Conductivity(TfB(f, tagD), TfA(f, tagD)))
     /\ tagBCcond[f] = Conductivity(TfA(Reversed(f), tagD), TfB(Reversed(f), tagD))

C7_Witness ==
  pc = "initProblem" /\ facesDone = m.faces /\
  \E f \in DOMAIN tagBCcond : Finite(tagBCcond[f]) /\ tagBCcond[f] # R(0)

(* C8 as stated: an internal face with tfA > 0 and tfB < 0 stores a        *)
(* positive conductivity.                                                  *)
C8_PositiveConductivity ==
  pc = "initProblem" =>
  \A f \in DOMAIN tagBCcond :
     (RLt(R(0), TfA(f, tagD)) /\ RLt(TfB(f, tagD), R(0))) => RLt(R(0), tagBCcond[f])

(* C8 amended: an internal face with tfA > 0 and tfB < 0 stores a negative *)
(* conductivity, minus the harmonic combination |tfA||tfB|/(|tfA|+|tfB|).  *)
C8_NegativeConductivity ==
  pc = "initProblem" =>
  \A f \in DOMAIN tagBCcond :
     (RLt(R(0), TfA(f, tagD)) /\ RLt(TfB(f, tagD), R(0))) =>
        /\ RLt(tagBCcond[f], R(0))
        /\ tagBCcond[f] =
             RNeg(RDiv(RMul(fabs(TfA(f, tagD)), fabs(TfB(f, tagD))),
                       RAdd(fabs(TfA(f, tagD)), fabs(TfB(f, tagD)))))

C8_Witness ==
  pc = "initProblem" /\ facesDone = m.faces /\
  \E f \in DOMAIN tagBCcond :
     /\ RLt(R(0), TfA(f, tagD)) /\ RLt(TfB(f, tagD), R(0))
     /\ f \in facesDone

====
